---- MODULE Spec2Model ----
(***************************************************************************)
(* Model of the YT video uploader server (src/server.py): the chunked      *)
(* transfer endpoint, the registry of pending videos driven by Telegram    *)
(* webhook events and HTTP requests, and the background publish worker.    *)
(*                                                                         *)
(* A path under UPLOAD_DIR is modelled by the file name itself; a file's   *)
(* content is the sequence of its bytes.  Every HTTP handler leaves its    *)
(* request and response in the variable "last".                            *)
(***************************************************************************)
EXTENDS Integers, Sequences, FiniteSets, TLC

\* ---------------------------------------------------------------- bounds
MaxChunkLen == 2        \* longest request body of a chunk submission
MaxFileLen  == 3        \* cap on a file's length and on offsets and sizes
MaxIds      == 2        \* cap on the number of video ids ever generated
MaxWorkers  == 2        \* cap on the number of publish threads ever started

Filenames == {"a.mov", "b.mov"}
Bytes     == {1, 2}

\* ------------------------------------------------------- program constants
STATE_AWAITING_TITLE   == "awaiting_title"
STATE_AWAITING_PRIVACY == "awaiting_privacy"
STATE_READY_TO_UPLOAD  == "ready_to_upload"
STATE_UPLOADING        == "uploading"
TitleLimit == 100
LongVideoSec == 600     \* a longer video is announced to a second chat

None    == 0            \* Python None for a message id / a video id
NoTitle == -1           \* the record has no "title" key
NoValue == "none"       \* the record has no "privacy" key

\* ------------------------------------------------------------- helpers
SeqsUpTo(S, n) == UNION {[1..k -> S] : k \in 0..n}
Chunks  == SeqsUpTo(Bytes, MaxChunkLen)
Offsets == 0..MaxFileLen
Ids     == 1..MaxIds

Put(fn, k, v) == [x \in (DOMAIN fn) \cup {k} |-> IF x = k THEN v ELSE fn[x]]
Del(fn, k)    == [x \in (DOMAIN fn) \ {k} |-> fn[x]]
Empty         == [x \in {} |-> 0]
Min(S)        == CHOOSE x \in S : \A y \in S : x <= y

VARIABLES
    pending_videos,     \* video_id -> record (the registry)
    partial_uploads,    \* filename -> [offset, total_size] (chunk sessions)
    files,              \* path -> bytes: the files under UPLOAD_DIR
    nextId,             \* number of video ids generated so far
    workers,            \* the publish threads started so far, in order
    thr,                \* request threads handling a chunk step by step
    sent,               \* filename -> the chunks accepted in offset order from offset 0
    last,               \* the last request handled and its response
    state_file,         \* the content of STATE_FILE (video_state.json)
    sender              \* the run of upload_video_chunked on the watcher's side

vars == <<pending_videos, partial_uploads, files, nextId, workers, thr, sent, last,
          state_file, sender>>

\* -------------------------------------------------------------- save_state
\* What json.dump writes: the registry as it is, and of every session its
\* offset and its total_size.
Snapshot(pv, pu) ==
    [pending_videos  |-> pv,
     partial_uploads |-> [k \in DOMAIN pu |->
                             [offset |-> pu[k].offset, total_size |-> pu[k].total_size]]]

\* save_state() at the end of a handler writes the state the handler leaves.
save_state == state_file' = Snapshot(pending_videos', partial_uploads')

\* A handler that calls save_state() in one of its branches only.  (Never:
\* the variant of a handler that saves in none.)
SaveNever(saved) == UNCHANGED state_file
SaveIf(saved) == IF saved THEN save_state ELSE UNCHANGED state_file

\* ------------------------------------------------------ requests, responses
NoReq == [op |-> "none", filename |-> "", offset |-> 0, len |-> 0, total_size |-> 0,
          video_id |-> None, value |-> "", status |-> "", code |-> 0,
          roffset |-> 0, rvideo_id |-> None]

ChunkReq(filename, offset, data, total_size) ==
    [NoReq EXCEPT !.op = "upload_chunk", !.filename = filename, !.offset = offset,
                  !.len = Len(data), !.total_size = total_size]

Resp409(req, expected_offset) ==
    [req EXCEPT !.status = "Offset mismatch", !.code = 409, !.roffset = expected_offset]
RespPartial(req, new_offset) ==
    [req EXCEPT !.status = "partial", !.code = 200, !.roffset = new_offset]
RespComplete(req, video_id) ==
    [req EXCEPT !.status = "complete", !.code = 200, !.rvideo_id = video_id]

\* --------------------------------------------------------- upload_status
\* The committed offset reported for a filename.  (TotalSize: the variant that
\* reports the declared size of the session.)
CommittedOffsetTotalSize(pu, filename) ==
    IF filename \in DOMAIN pu THEN pu[filename].total_size ELSE 0
CommittedOffset(pu, filename) ==
    IF filename \in DOMAIN pu THEN pu[filename].offset ELSE 0

\* (upload_status and upload_chunk say nothing of the sender: a request is
\* either one step of the sender's run or a request of another client.)
upload_status(filename) ==
    /\ last' = [NoReq EXCEPT !.op = "upload_status", !.filename = filename,
                             !.status = "offset", !.code = 200,
                             !.roffset = CommittedOffset(partial_uploads, filename)]
    /\ UNCHANGED <<pending_videos, partial_uploads, files, nextId, workers, thr, sent>>
    /\ UNCHANGED state_file

\* ---------------------------------------------------------- upload_chunk
\* "Check offset": the submission is refused when a session exists and the
\* offset differs from the session's offset.  (AboveOnly: the variant that
\* refuses only an offset above the session's.)
OffsetMismatchAboveOnly(pu, filename, offset) ==
    filename \in DOMAIN pu /\ offset > pu[filename].offset
OffsetMismatch(pu, filename, offset) ==
    filename \in DOMAIN pu /\ offset # pu[filename].offset

\* mode = "ab" if offset > 0 else "wb".  (AlwaysAppend: the variant that never
\* truncates.)
OpenModeAlwaysAppend(offset) == "ab"
OpenMode(offset) == IF offset > 0 THEN "ab" ELSE "wb"

\* open(file_path, mode): "wb" creates or truncates, "ab" creates when missing.
\* (NoTruncate: the variant in which "wb" keeps the bytes of an existing file.)
OpenFileNoTruncate(fs, path, mode) ==
    IF path \notin DOMAIN fs THEN Put(fs, path, <<>>) ELSE fs
OpenFile(fs, path, mode) ==
    IF mode = "wb" \/ path \notin DOMAIN fs THEN Put(fs, path, <<>>) ELSE fs

\* f.write(chunk_data) and the close: "ab" writes at the end of the file, "wb"
\* at the position of the handle, which is 0 after the open.
WriteFile(fs, path, mode, data) ==
    LET old == IF path \in DOMAIN fs THEN fs[path] ELSE <<>>
    IN  Put(fs, path, IF mode = "ab" THEN old \o data
                      ELSE data \o SubSeq(old, Len(data) + 1, Len(old)))

WriteChunk(fs, path, mode, data) ==
    WriteFile(OpenFile(fs, path, mode), path, mode, data)

\* new_offset = offset + len(chunk_data).  (LengthOnly: the variant that
\* forgets the offset.)
NewOffsetLengthOnly(offset, data) == Len(data)
NewOffset(offset, data) == offset + Len(data)

\* new_offset >= total_size.  (Strictly: the variant with > for >=.)
IsCompleteStrictly(new_offset, total_size) == new_offset > total_size
IsComplete(new_offset, total_size) == new_offset >= total_size

\* "Check for duplicates": the first record, in insertion order, that has
\* this filename; ids are generated in increasing order.
Duplicates(pv, filename) == {vid \in DOMAIN pv : pv[vid].filename = filename}

NewRecord(filename, message_id) ==
    [filename |-> filename, path |-> filename, state |-> STATE_AWAITING_TITLE,
     title |-> NoTitle, privacy |-> NoValue, message_id |-> message_id]

\* The ghost "sent": what an in-order sender has had accepted since offset 0.
Broken == [ok |-> FALSE, data |-> <<>>]
SentAfter(s, offset, data) ==
    IF offset = 0 THEN [ok |-> TRUE, data |-> data]
    ELSE IF s.ok /\ offset = Len(s.data) THEN [ok |-> TRUE, data |-> s.data \o data]
    ELSE Broken

\* A publish thread holds a reference to the record object it looked up.  When
\* the registry entry of that id is replaced or removed, the thread keeps the
\* old object: its later writes no longer reach the registry.
Detach(ws, video_id) ==
    [i \in DOMAIN ws |->
        IF ws[i].video_id = video_id THEN [ws[i] EXCEPT !.live = FALSE] ELSE ws[i]]

upload_chunk(filename, offset, data, total_size, message_id) ==
    LET req == ChunkReq(filename, offset, data, total_size) IN
    IF OffsetMismatch(partial_uploads, filename, offset)
    THEN /\ last' = Resp409(req, partial_uploads[filename].offset)
         /\ UNCHANGED <<pending_videos, partial_uploads, files, nextId, workers, thr, sent>>
         /\ UNCHANGED state_file
    ELSE LET fs1        == WriteChunk(files, filename, OpenMode(offset), data)
             new_offset == NewOffset(offset, data)
             pu1        == Put(partial_uploads, filename,
                               [offset |-> new_offset, total_size |-> total_size])
             dups       == Duplicates(pending_videos, filename)
             video_id   == IF dups # {} THEN Min(dups) ELSE nextId + 1
         IN  /\ Len(fs1[filename]) <= MaxFileLen
             /\ new_offset <= MaxFileLen
             /\ files' = fs1
             /\ sent' = [sent EXCEPT ![filename] = SentAfter(@, offset, data)]
             /\ thr' = thr
             /\ IF IsComplete(new_offset, total_size)
                THEN /\ dups = {} => nextId < MaxIds
                     /\ pending_videos' =
                            Put(pending_videos, video_id, NewRecord(filename, message_id))
                     /\ partial_uploads' = Del(pu1, filename)
                     /\ nextId' = IF dups = {} THEN nextId + 1 ELSE nextId
                     /\ workers' = Detach(workers, video_id)
                     /\ last' = RespComplete(req, video_id)
                ELSE /\ partial_uploads' = pu1
                     /\ last' = RespPartial(req, new_offset)
                     /\ UNCHANGED <<pending_videos, nextId, workers>>
             /\ save_state

\* --------------------------------------------------------- upload_direct
\* Path(...).unlink(missing_ok=True).  (Skipped: the variant that leaves the
\* file on disk.)
UnlinkSkipped(fs, path) == fs
Unlink(fs, path) == Del(fs, path)

upload_direct(filename, content) ==
    /\ nextId < MaxIds
    /\ files' = Put(files, filename, content)
    /\ pending_videos' = Put(pending_videos, nextId + 1, NewRecord(filename, None))
    /\ nextId' = nextId + 1
    /\ sent' = [sent EXCEPT ![filename] = Broken]
    /\ last' = [NoReq EXCEPT !.op = "upload", !.filename = filename,
                             !.len = Len(content), !.status = "complete",
                             !.code = 200, !.rvideo_id = nextId + 1]
    /\ UNCHANGED <<partial_uploads, workers, thr>>
    /\ UNCHANGED sender
    /\ save_state

\* ------------------------------------------------------ telegram_webhook
WebhookReq(op, video_id, value) ==
    [NoReq EXCEPT !.op = op, !.video_id = video_id, !.value = value,
                  !.status = "ok", !.code = 200]

\* callback "privacy:<value>:<video_id>".  (Advance: the variant that moves
\* the record one state forward from the state it is in.)
SetPrivacyAdvance(rec, value) ==
    [rec EXCEPT !.privacy = value,
                !.state = CASE rec.state = STATE_AWAITING_TITLE -> STATE_AWAITING_PRIVACY
                            [] rec.state = STATE_AWAITING_PRIVACY -> STATE_READY_TO_UPLOAD
                            [] OTHER -> STATE_UPLOADING]
SetPrivacy(rec, value) == [rec EXCEPT !.privacy = value, !.state = STATE_READY_TO_UPLOAD]

WebhookPrivacy(video_id, value) ==
    /\ pending_videos' =
          IF video_id \in DOMAIN pending_videos
          THEN [pending_videos EXCEPT ![video_id] = SetPrivacy(@, value)]
          ELSE pending_videos
    /\ last' = WebhookReq("privacy", video_id, value)
    /\ UNCHANGED <<partial_uploads, files, nextId, workers, thr, sent>>
    /\ UNCHANGED sender
    /\ SaveIf(video_id \in DOMAIN pending_videos)

\* callback "action:yes:<video_id>": remember the chat message and start
\* upload_to_youtube in a new thread.
NewWorker(video_id) ==
    [video_id |-> video_id, pc |-> "start", live |-> FALSE, video_path |-> "",
     progress |-> 0, last_progress_update |-> 0, seconds |-> 0, notified_at |-> 0,
     poll_elapsed |-> 0]

\* (Unchecked: the variant that starts the thread for any video id.)
WebhookConfirmUploadUnchecked(video_id, message_id) ==
    /\ Len(workers) < MaxWorkers
    /\ pending_videos' =
          IF video_id \in DOMAIN pending_videos
          THEN [pending_videos EXCEPT ![video_id].message_id = message_id]
          ELSE pending_videos
    /\ workers' = Append(workers, NewWorker(video_id))
    /\ last' = WebhookReq("action:yes", video_id, "")
    /\ UNCHANGED <<partial_uploads, files, nextId, thr, sent>>
    /\ UNCHANGED sender
    /\ SaveIf(video_id \in DOMAIN pending_videos)

WebhookConfirmUpload(video_id, message_id) ==
    /\ Len(workers) < MaxWorkers
    /\ IF video_id \in DOMAIN pending_videos
       THEN /\ pending_videos' =
                  [pending_videos EXCEPT ![video_id].message_id = message_id]
            /\ workers' = Append(workers, NewWorker(video_id))
       ELSE UNCHANGED <<pending_videos, workers>>
    /\ last' = WebhookReq("action:yes", video_id, "")
    /\ UNCHANGED <<partial_uploads, files, nextId, thr, sent>>
    /\ UNCHANGED sender
    /\ SaveIf(video_id \in DOMAIN pending_videos)

\* callback "action:no:<video_id>": only the delete prompt is shown.
WebhookDeleteButton(video_id) ==
    /\ last' = WebhookReq("action:no", video_id, "")
    /\ UNCHANGED <<pending_videos, partial_uploads, files, nextId, workers, thr, sent>>
    /\ UNCHANGED sender
    /\ UNCHANGED state_file

\* The record is removed and its file unlinked.
DeleteRecord(video_id) ==
    LET path == pending_videos[video_id].path IN
    /\ files' = Unlink(files, path)
    /\ pending_videos' = Del(pending_videos, video_id)
    /\ workers' = Detach(workers, video_id)
    /\ sent' = [f \in Filenames |-> IF f = path THEN Broken ELSE sent[f]]

\* callback "confirm:yes:<video_id>"
WebhookConfirmDelete(video_id) ==
    /\ IF video_id \in DOMAIN pending_videos
       THEN DeleteRecord(video_id)
       ELSE UNCHANGED <<pending_videos, files, workers, sent>>
    /\ last' = WebhookReq("confirm:yes", video_id, "")
    /\ UNCHANGED <<partial_uploads, nextId, thr>>
    /\ UNCHANGED sender
    /\ SaveIf(video_id \in DOMAIN pending_videos)

\* callback "confirm:no:<video_id>": only the privacy keyboard is shown again.
WebhookGoBack(video_id) ==
    /\ last' = WebhookReq("confirm:no", video_id, "")
    /\ UNCHANGED <<pending_videos, partial_uploads, files, nextId, workers, thr, sent>>
    /\ UNCHANGED sender
    /\ UNCHANGED state_file

\* Every record's file is unlinked and the registry is cleared.
ClearAll ==
    LET paths == {pending_videos[v].path : v \in DOMAIN pending_videos} IN
    /\ files' = [p \in (DOMAIN files) \ paths |-> files[p]]
    /\ pending_videos' = Empty
    /\ workers' = [i \in DOMAIN workers |-> [workers[i] EXCEPT !.live = FALSE]]
    /\ sent' = [f \in Filenames |-> IF f \in paths THEN Broken ELSE sent[f]]

\* callback "cleanup:yes:all"
WebhookCleanupYes ==
    /\ ClearAll
    /\ last' = WebhookReq("cleanup:yes", None, "")
    /\ UNCHANGED <<partial_uploads, nextId, thr>>
    /\ UNCHANGED sender
    /\ save_state

\* A text is a core of "core" characters with "pad" characters of white space
\* around it: text.strip()[:100] keeps at most TitleLimit characters of the core.
\* (StripOnly: the variant without the [:100].)
StripOnly(text) == text.core
StripTruncate(text) == IF text.core > TitleLimit THEN TitleLimit ELSE text.core

\* The first record, in insertion order, that the reply is addressed to.
AwaitingReply(pv, reply_msg_id) ==
    {v \in DOMAIN pv : pv[v].message_id = reply_msg_id /\ pv[v].state = STATE_AWAITING_TITLE}

WebhookTitleReply(reply_msg_id, text) ==
    LET found == AwaitingReply(pending_videos, reply_msg_id) IN
    /\ pending_videos' =
          IF found # {}
          THEN [pending_videos EXCEPT ![Min(found)] =
                    [@ EXCEPT !.title = StripTruncate(text), !.state = STATE_AWAITING_PRIVACY]]
          ELSE pending_videos
    /\ last' = [WebhookReq("reply", IF found # {} THEN Min(found) ELSE None, "")
                    EXCEPT !.len = text.core]
    /\ UNCHANGED <<partial_uploads, files, nextId, workers, thr, sent>>
    /\ UNCHANGED sender
    /\ SaveIf(found # {})

\* ------------------------------------------------- delete_video, cleanup_all
delete_video(video_id) ==
    /\ IF video_id \in DOMAIN pending_videos
       THEN /\ DeleteRecord(video_id)
            /\ last' = [NoReq EXCEPT !.op = "delete", !.video_id = video_id,
                                     !.status = "deleted", !.code = 200]
       ELSE /\ last' = [NoReq EXCEPT !.op = "delete", !.video_id = video_id,
                                     !.status = "Video not found", !.code = 404]
            /\ UNCHANGED <<pending_videos, files, workers, sent>>
    /\ UNCHANGED <<partial_uploads, nextId, thr>>
    /\ UNCHANGED sender
    /\ SaveIf(video_id \in DOMAIN pending_videos)

\* ------------------------------------------------ preview_video, retry_notify
preview_video(video_id) ==
    /\ last' = IF video_id \notin DOMAIN pending_videos
               THEN [NoReq EXCEPT !.op = "preview", !.video_id = video_id,
                                  !.status = "Video not found", !.code = 404]
               ELSE IF pending_videos[video_id].path \notin DOMAIN files
               THEN [NoReq EXCEPT !.op = "preview", !.video_id = video_id,
                                  !.status = "File not found", !.code = 404]
               ELSE [NoReq EXCEPT !.op = "preview", !.video_id = video_id,
                                  !.status = "file", !.code = 200,
                                  !.len = Len(files[pending_videos[video_id].path])]
    /\ UNCHANGED <<pending_videos, partial_uploads, files, nextId, workers, thr, sent>>
    /\ UNCHANGED sender
    /\ UNCHANGED state_file

retry_notify(video_id) ==
    /\ last' = IF video_id \notin DOMAIN pending_videos
               THEN [NoReq EXCEPT !.op = "retry_notify", !.video_id = video_id,
                                  !.status = "Video not found", !.code = 404]
               ELSE [NoReq EXCEPT !.op = "retry_notify", !.video_id = video_id,
                                  !.status = "notification_sent", !.code = 200]
    /\ UNCHANGED <<pending_videos, partial_uploads, files, nextId, workers, thr, sent>>
    /\ UNCHANGED sender
    /\ UNCHANGED state_file

cleanup_all ==
    /\ ClearAll
    /\ last' = [NoReq EXCEPT !.op = "cleanup", !.status = "cleaned", !.code = 200,
                             !.len = Cardinality(DOMAIN pending_videos)]
    /\ UNCHANGED <<partial_uploads, nextId, thr>>
    /\ UNCHANGED sender
    /\ save_state

\* ------------------------------------------------------------ cleanup_stale
\* The records whose uploaded_at is more than 7 days back.  Ids are generated
\* in the order of time, so these are the records up to "cutoff", the last id
\* generated before that date.
Stale(pv, cutoff) == {v \in DOMAIN pv : v <= cutoff}

cleanup_stale(cutoff) ==
    LET gone  == Stale(pending_videos, cutoff)
        paths == {pending_videos[v].path : v \in gone}
    IN
    /\ files' = [p \in (DOMAIN files) \ paths |-> files[p]]
    /\ pending_videos' = [v \in (DOMAIN pending_videos) \ gone |-> pending_videos[v]]
    /\ workers' = [i \in DOMAIN workers |->
                      IF workers[i].video_id \in gone
                      THEN [workers[i] EXCEPT !.live = FALSE] ELSE workers[i]]
    /\ sent' = [f \in Filenames |-> IF f \in paths THEN Broken ELSE sent[f]]
    /\ last' = [NoReq EXCEPT !.op = "cleanup_stale", !.status = "cleaned", !.code = 200,
                             !.len = Cardinality(gone)]
    /\ UNCHANGED <<partial_uploads, nextId, thr>>
    /\ UNCHANGED sender
    /\ save_state

\* ------------------------------------------------------ upload_to_youtube
Rotated(filename) == "rotated_" \o filename
\* The output of ffmpeg is another encoding of the input.
Transposed(bytes) == <<0>> \o bytes

\* A step of a publish thread is no request: it leaves its video id in "last".
WorkerStep(video_id) == [NoReq EXCEPT !.op = "upload_to_youtube", !.video_id = video_id]

SetWorker(i, w) == workers' = [workers EXCEPT ![i] = w]

\* A thread that has returned holds no reference and no path any more.
Ended(w, pc) == [NewWorker(w.video_id) EXCEPT !.pc = pc]

\* video = pending_videos.get(video_id); if not video: return
WorkerLookup(i) ==
    LET w == workers[i] IN
    /\ w.pc = "start"
    /\ IF w.video_id \in DOMAIN pending_videos
       THEN SetWorker(i, [w EXCEPT !.pc = "got", !.live = TRUE,
                                   !.video_path = pending_videos[w.video_id].path])
       ELSE SetWorker(i, Ended(w, "absent"))
    /\ last' = WorkerStep(w.video_id)
    /\ UNCHANGED <<pending_videos, partial_uploads, files, nextId, thr, sent>>
    /\ UNCHANGED sender
    /\ UNCHANGED state_file

\* video["state"] = STATE_UPLOADING, written through the reference held.
WorkerSetUploading(i) ==
    LET w == workers[i] IN
    /\ w.pc = "got"
    /\ pending_videos' =
          IF w.live THEN [pending_videos EXCEPT ![w.video_id].state = STATE_UPLOADING]
          ELSE pending_videos
    /\ SetWorker(i, [w EXCEPT !.pc = "uploading"])
    /\ last' = WorkerStep(w.video_id)
    /\ UNCHANGED <<partial_uploads, files, nextId, thr, sent>>
    /\ UNCHANGED sender
    /\ save_state

\* The upload loop: upload_request.next_chunk() has sent one more segment and
\* reports the progress in percent.  "seconds" counts the time since the loop
\* began, at which time.time() was Epoch; "notified_at" is the value of
\* "seconds" at the last progress message.
Epoch    == 1700000000
Percents == {2, 4, 10}
Delays   == {1, 6}

\* if progress - last_progress_update >= 5 or time.time() - last_progress_update > 5
ProgressDue(progress, now, last_progress_update) ==
    \/ progress - last_progress_update >= 5
    \/ now - last_progress_update > 5

\* One segment, "delay" seconds after the one before; the step leaves in
\* "last" whether the progress message was sent.
WorkerProgress(i, progress, delay) ==
    LET w   == workers[i]
        due == ProgressDue(progress, Epoch + w.seconds + delay, w.last_progress_update)
    IN
    /\ w.pc = "uploading"
    /\ progress > w.progress
    /\ SetWorker(i, [w EXCEPT !.progress = progress,
                              !.seconds = w.seconds + delay,
                              !.last_progress_update = IF due THEN progress ELSE @,
                              !.notified_at = IF due THEN w.seconds + delay ELSE @])
    /\ last' = [WorkerStep(w.video_id) EXCEPT !.status = IF due THEN "notified" ELSE "quiet"]
    /\ UNCHANGED <<pending_videos, partial_uploads, files, nextId, thr, sent>>
    /\ UNCHANGED sender
    /\ UNCHANGED state_file

\* Rotation of a portrait video, then the upload to the platform, which fails
\* with an exception, is rejected by the platform, or succeeds.
Outcomes == {"error", "rejected", "ok"}

WorkerPublish(i, portrait, outcome) ==
    LET w      == workers[i]
        rotate == portrait /\ w.video_path \in DOMAIN files
    IN
    /\ w.pc = "uploading"
    /\ files' = IF rotate
                THEN Put(files, Rotated(w.video_path), Transposed(files[w.video_path]))
                ELSE files
    /\ SetWorker(i, CASE outcome = "error" -> Ended(w, "failed")
                      [] outcome = "rejected" -> Ended(w, "rejected")
                      [] OTHER -> [NewWorker(w.video_id) EXCEPT
                                       !.pc = "processing", !.live = w.live,
                                       !.video_path = IF rotate THEN Rotated(w.video_path)
                                                      ELSE w.video_path])
    /\ last' = WorkerStep(w.video_id)
    /\ UNCHANGED <<pending_videos, partial_uploads, nextId, thr, sent>>
    /\ UNCHANGED sender
    /\ UNCHANGED state_file

\* "Poll for processing completion": while less than max_poll_time seconds have
\* passed since poll_start, sleep PollSleep seconds and ask for the processing
\* status; "succeeded" leaves the loop, any other answer and an exception of
\* the call ("error") go round again.
max_poll_time == 600
PollSleep     == 30
PollResults   == {"succeeded", "processing", "error"}

\* while time.time() - poll_start < max_poll_time.  (Inverted: the variant
\* with the test the other way round.)
PollingInverted(elapsed) == elapsed > max_poll_time
Polling(elapsed) == elapsed < max_poll_time

\* One evaluation of the loop test and, when it holds, one round of the loop;
\* the step leaves in "last" the answer it got, or "timeout".
WorkerPoll(i, result) ==
    LET w == workers[i] IN
    /\ w.pc = "processing"
    /\ SetWorker(i, IF Polling(w.poll_elapsed)
                    THEN [w EXCEPT !.poll_elapsed = @ + PollSleep,
                                   !.pc = IF result = "succeeded" THEN "polled"
                                          ELSE "processing"]
                    ELSE [w EXCEPT !.pc = "polled"])
    /\ last' = [WorkerStep(w.video_id) EXCEPT
                    !.status = IF Polling(w.poll_elapsed) THEN result ELSE "timeout"]
    /\ UNCHANGED <<pending_videos, partial_uploads, files, nextId, thr, sent>>
    /\ UNCHANGED sender
    /\ UNCHANGED state_file

\* video.get("duration_sec", 0) on the record object the thread holds: neither
\* upload_chunk nor upload_direct gives a record that key, so the default is
\* what is read.
DurationSec(w) == 0

\* The end of the publish, once the poll loop is left: the success
\* message, the announcement of a long video, then "Clean up":
\* video_path.unlink(missing_ok=True) and the registry entry of the id,
\* whichever record it holds now, is removed.  "delivered" tells whether the
\* chat service can be reached: edit_telegram_message catches its errors and
\* returns False, send_telegram_message lets them through to the except
\* branch of the thread.
\* if video_id in pending_videos: del pending_videos[video_id].  (ByPath: the
\* variant that removes the records of the file the thread has published.)
ForgetByPath(pv, w) == [v \in {u \in DOMAIN pv : pv[u].path # w.video_path} |-> pv[v]]
Forget(pv, w) == Del(pv, w.video_id)

WorkerCleanup(i, delivered) ==
    LET w      == workers[i]
        raised == ~delivered /\ DurationSec(w) > LongVideoSec
    IN
    /\ w.pc = "polled"
    /\ IF raised
       THEN /\ SetWorker(i, Ended(w, "failed"))
            /\ UNCHANGED <<files, pending_videos, sent>>
       ELSE /\ files' = Unlink(files, w.video_path)
            /\ pending_videos' = Forget(pending_videos, w)
            /\ workers' = [Detach(workers, w.video_id) EXCEPT ![i] = Ended(w, "published")]
            /\ sent' = [f \in Filenames |-> IF f = w.video_path THEN Broken ELSE sent[f]]
    /\ last' = [WorkerStep(w.video_id) EXCEPT
                    !.status = IF delivered THEN "delivered" ELSE "undelivered"]
    /\ UNCHANGED <<partial_uploads, nextId, thr>>
    /\ UNCHANGED sender
    /\ SaveIf(~raised)

\* ------------------------------------ upload_chunk on concurrent threads
\* The handler takes no lock before save_state: two request threads interleave
\* at its reads and writes of partial_uploads and of the file.
Threads == {"t1", "t2"}
IdleThread == [pc |-> "idle", filename |-> "", offset |-> 0, data |-> <<>>,
               total_size |-> 0, code |-> 0, raced |-> FALSE,
               video_id |-> None, value |-> ""]

\* A thread that has responded keeps the position it was asked to write at,
\* its status code and whether it raced with another thread.
Responded(me, code) ==
    [me EXCEPT !.pc = "done", !.code = code, !.data = <<>>, !.total_size = 0]

InFlight(t) == thr[t].pc \in {"open", "write", "commit", "finish"}

\* The threads caught in the middle of a submission of the same chunk position.
Overlapping(t, filename, offset) ==
    {u \in Threads \ {t} :
        InFlight(u) /\ thr[u].filename = filename /\ thr[u].offset = offset}

\* The headers are read and the offset is checked.
ChunkCheck(t, filename, offset, data, total_size) ==
    LET me == [IdleThread EXCEPT !.filename = filename, !.offset = offset,
                                 !.data = data, !.total_size = total_size]
        ov == Overlapping(t, filename, offset)
    IN
    /\ thr[t].pc \in {"idle", "done"}
    /\ offset + Len(data) <= MaxFileLen
    /\ thr' = IF OffsetMismatch(partial_uploads, filename, offset)
              THEN [thr EXCEPT ![t] = Responded(me, 409)]
              ELSE [u \in Threads |->
                       IF u = t THEN [me EXCEPT !.pc = "open", !.raced = (ov # {})]
                       ELSE IF u \in ov THEN [thr[u] EXCEPT !.raced = TRUE]
                       ELSE thr[u]]
    /\ UNCHANGED <<pending_videos, partial_uploads, files, nextId, workers, sent, last>>
    /\ UNCHANGED sender
    /\ UNCHANGED state_file

ChunkOpen(t) ==
    /\ thr[t].pc = "open"
    /\ files' = OpenFile(files, thr[t].filename, OpenMode(thr[t].offset))
    /\ thr' = [thr EXCEPT ![t].pc = "write"]
    /\ UNCHANGED <<pending_videos, partial_uploads, nextId, workers, sent, last>>
    /\ UNCHANGED sender
    /\ UNCHANGED state_file

ChunkWrite(t) ==
    LET fs1 == WriteFile(files, thr[t].filename, OpenMode(thr[t].offset), thr[t].data) IN
    /\ thr[t].pc = "write"
    /\ Len(fs1[thr[t].filename]) <= MaxFileLen + MaxChunkLen
    /\ files' = fs1
    /\ thr' = [thr EXCEPT ![t].pc = "commit"]
    /\ UNCHANGED <<pending_videos, partial_uploads, nextId, workers, sent, last>>
    /\ UNCHANGED sender
    /\ UNCHANGED state_file

\* partial_uploads[filename] = {"offset": new_offset, "total_size": total_size}
ChunkCommit(t) ==
    /\ thr[t].pc = "commit"
    /\ partial_uploads' = Put(partial_uploads, thr[t].filename,
                              [offset |-> NewOffset(thr[t].offset, thr[t].data),
                               total_size |-> thr[t].total_size])
    /\ thr' = [thr EXCEPT ![t].pc = "finish"]
    /\ UNCHANGED <<pending_videos, files, nextId, workers, sent, last>>
    /\ UNCHANGED sender
    /\ UNCHANGED state_file

\* "Check if complete": the record is written, then the session is deleted,
\* which raises KeyError (a 500 response) when another thread deleted it first.
ChunkFinish(t) ==
    LET me       == thr[t]
        dups     == Duplicates(pending_videos, me.filename)
        video_id == IF dups # {} THEN Min(dups) ELSE nextId + 1
    IN
    /\ me.pc = "finish"
    /\ IF IsComplete(NewOffset(me.offset, me.data), me.total_size)
       THEN /\ dups = {} => nextId < MaxIds
            /\ pending_videos' = Put(pending_videos, video_id, NewRecord(me.filename, None))
            /\ nextId' = IF dups = {} THEN nextId + 1 ELSE nextId
            /\ workers' = Detach(workers, video_id)
            /\ partial_uploads' = Del(partial_uploads, me.filename)
            /\ thr' = [thr EXCEPT ![t] = Responded(me,
                            IF me.filename \in DOMAIN partial_uploads THEN 200 ELSE 500)]
       ELSE /\ thr' = [thr EXCEPT ![t] = Responded(me, 200)]
            /\ UNCHANGED <<pending_videos, nextId, workers, partial_uploads>>
    /\ UNCHANGED <<files, sent, last>>
    /\ UNCHANGED sender
    /\ SaveIf(IsComplete(NewOffset(me.offset, me.data), me.total_size)
                 => me.filename \in DOMAIN partial_uploads)

\* -------------------------------- telegram_webhook on concurrent threads
\* The handler takes no lock either: between the test "video_id in
\* pending_videos" of a branch and each later pending_videos[video_id] another
\* request thread can run.  A thread that has answered keeps its status code.
HookDone(code) == [IdleThread EXCEPT !.pc = "done", !.code = code]

\* pending_videos[video_id] raises KeyError, which Flask answers with 500.
KeyError(video_id) == video_id \notin DOMAIN pending_videos

\* The branch is chosen: "privacy" or "confirm:yes" with the id in the registry.
HookDispatch(t, op, video_id, value) ==
    /\ thr[t].pc \in {"idle", "done"}
    /\ thr' = [thr EXCEPT ![t] =
                 IF video_id \in DOMAIN pending_videos
                 THEN [IdleThread EXCEPT !.pc = op, !.video_id = video_id, !.value = value]
                 ELSE HookDone(200)]
    /\ UNCHANGED <<pending_videos, partial_uploads, files, nextId, workers, sent, last>>
    /\ UNCHANGED sender
    /\ UNCHANGED state_file

\* pending_videos[video_id]["privacy"] = value
HookPrivacyValue(t) ==
    LET me == thr[t] IN
    /\ me.pc = "privacy"
    /\ IF KeyError(me.video_id)
       THEN /\ thr' = [thr EXCEPT ![t] = HookDone(500)]
            /\ UNCHANGED pending_videos
       ELSE /\ pending_videos' = [pending_videos EXCEPT ![me.video_id].privacy = me.value]
            /\ thr' = [thr EXCEPT ![t].pc = "privacy_state"]
    /\ UNCHANGED <<partial_uploads, files, nextId, workers, sent, last>>
    /\ UNCHANGED sender
    /\ UNCHANGED state_file

\* pending_videos[video_id]["state"] = STATE_READY_TO_UPLOAD
HookPrivacyState(t) ==
    LET me == thr[t] IN
    /\ me.pc = "privacy_state"
    /\ IF KeyError(me.video_id)
       THEN /\ thr' = [thr EXCEPT ![t] = HookDone(500)]
            /\ UNCHANGED pending_videos
       ELSE /\ pending_videos' =
                  [pending_videos EXCEPT ![me.video_id].state = STATE_READY_TO_UPLOAD]
            /\ thr' = [thr EXCEPT ![t].pc = "privacy_read"]
    /\ UNCHANGED <<partial_uploads, files, nextId, workers, sent, last>>
    /\ UNCHANGED sender
    /\ UNCHANGED state_file

\* save_state(), then video = pending_videos[video_id] for the message.
HookPrivacyRead(t) ==
    /\ thr[t].pc = "privacy_read"
    /\ thr' = [thr EXCEPT ![t] = HookDone(IF KeyError(thr[t].video_id) THEN 500 ELSE 200)]
    /\ UNCHANGED <<pending_videos, partial_uploads, files, nextId, workers, sent, last>>
    /\ UNCHANGED sender
    /\ save_state

\* video = pending_videos[video_id]; Path(video["path"]).unlink(missing_ok=True)
HookDeleteUnlink(t) ==
    LET me == thr[t] IN
    /\ me.pc = "confirm:yes"
    /\ IF KeyError(me.video_id)
       THEN /\ thr' = [thr EXCEPT ![t] = HookDone(500)]
            /\ UNCHANGED <<files, sent>>
       ELSE /\ files' = Unlink(files, pending_videos[me.video_id].path)
            /\ sent' = [f \in Filenames |->
                           IF f = pending_videos[me.video_id].path THEN Broken ELSE sent[f]]
            /\ thr' = [thr EXCEPT ![t].pc = "confirm_del"]
    /\ UNCHANGED <<pending_videos, partial_uploads, nextId, workers, last>>
    /\ UNCHANGED sender
    /\ UNCHANGED state_file

\* del pending_videos[video_id]
HookDeleteDel(t) ==
    LET me == thr[t] IN
    /\ me.pc = "confirm_del"
    /\ IF KeyError(me.video_id)
       THEN /\ thr' = [thr EXCEPT ![t] = HookDone(500)]
            /\ UNCHANGED <<pending_videos, workers>>
       ELSE /\ pending_videos' = Del(pending_videos, me.video_id)
            /\ workers' = Detach(workers, me.video_id)
            /\ thr' = [thr EXCEPT ![t] = HookDone(200)]
    /\ UNCHANGED <<partial_uploads, files, nextId, sent, last>>
    /\ UNCHANGED sender
    /\ SaveIf(~KeyError(me.video_id))

\* ------------------------------------ upload_video_chunked (watch_icloud.py)
\* Sizes are counted in units of which a file below SmallFileLimit units is a
\* "small" file and is sent in chunks of CHUNK_SIZE_SMALL units.
CHUNK_SIZE_SMALL  == 1
CHUNK_SIZE_MEDIUM == 2
SmallFileLimit    == 3
max_retries       == 3
RetryTotal        == 3      \* Retry(total=3) of the session's adapter

get_chunk_size(file_size) ==
    IF file_size < SmallFileLimit THEN CHUNK_SIZE_SMALL ELSE CHUNK_SIZE_MEDIUM

\* The sender's run: "file" is the content of video_path, "pos" is f.tell(),
\* "chunk" and "current_offset" are the chunk read last and its X-Offset,
\* "read_at" is the position the chunk was read from, "attempt" is the loop
\* variable of the retry loop, "resends" counts the times the adapter has sent
\* the request of this attempt again, "complete" tells that a response of
\* this run said "complete", "result" is the value returned.
IdleSender == [pc |-> "idle", file |-> <<>>, pos |-> 0, chunk |-> <<>>,
               current_offset |-> 0, read_at |-> 0, attempt |-> 0, resends |-> 0,
               complete |-> FALSE, result |-> FALSE]

SenderFile == "a.mov"

\* f.read(chunk_size) at position pos
FileRead(file, pos, size) ==
    IF pos >= Len(file) THEN <<>>
    ELSE SubSeq(file, pos + 1, Min({Len(file), pos + size}))

\* The run has returned: the file is closed, the locals are gone.
Returned(s, result) ==
    [IdleSender EXCEPT !.pc = "returned", !.file = s.file, !.result = result]

\* offset = get_upload_status(session, filename), which is 0 when the server
\* cannot be reached; if offset > 0: f.seek(offset)
SenderStart(file, reachable) ==
    /\ sender.pc \in {"idle", "returned"}
    /\ IF reachable
       THEN /\ upload_status(SenderFile)
            /\ sender' = [IdleSender EXCEPT !.pc = "read", !.file = file,
                                            !.pos = last'.roffset]
       ELSE /\ sender' = [IdleSender EXCEPT !.pc = "read", !.file = file]
            /\ last' = [NoReq EXCEPT !.op = "upload_video_chunked"]
            /\ UNCHANGED <<pending_videos, partial_uploads, files, nextId, workers,
                           thr, sent, state_file>>

\* chunk = f.read(chunk_size); if not chunk: break — and the return True
\* that follows the loop; current_offset = f.tell() - len(chunk)
SenderRead ==
    LET chunk == FileRead(sender.file, sender.pos, get_chunk_size(Len(sender.file)))
        tell  == sender.pos + Len(chunk)
    IN
    /\ sender.pc = "read"
    /\ sender' = IF chunk = <<>>
                 THEN Returned(sender, TRUE)
                 ELSE [sender EXCEPT !.pc = "post", !.chunk = chunk, !.pos = tell,
                                     !.read_at = sender.pos,
                                     !.current_offset = tell - Len(chunk),
                                     !.attempt = 0, !.resends = 0]
    /\ last' = [NoReq EXCEPT !.op = "upload_video_chunked"]
    /\ UNCHANGED <<pending_videos, partial_uploads, files, nextId, workers, thr, sent,
                   state_file>>

\* A failed attempt, by an exception of the request or by an error response:
\* the last attempt returns False, an earlier one is followed by the next.
\* (Again: the variant that starts counting anew.)
AfterFailureAgain(s) == [s EXCEPT !.attempt = 0, !.resends = 0]
AfterFailure(s) ==
    IF s.attempt = max_retries - 1 THEN Returned(s, FALSE)
    ELSE [s EXCEPT !.attempt = @ + 1, !.resends = 0]

\* A transmission that fails in a way the adapter retries (no connection, no
\* answer in time, a status of its status_forcelist): the adapter sends the
\* same request again, and after RetryTotal resends session.post raises.
AfterTransmission(s) ==
    IF s.resends < RetryTotal THEN [s EXCEPT !.resends = @ + 1]
    ELSE AfterFailure(s)

\* f.seek(new_offset) after a 409.  (Skipped: the variant that leaves the file
\* position where the read left it.)
ReseekSkipped(s, new_offset) == [s EXCEPT !.pc = "read", !.attempt = 0, !.resends = 0]
Reseek(s, new_offset) ==
    [s EXCEPT !.pc = "read", !.pos = new_offset, !.attempt = 0, !.resends = 0]

\* What the sender does with the response of upload_chunk.
AfterResponse(s, response) ==
    IF response.code = 409 THEN Reseek(s, response.roffset)
    ELSE IF response.status = "complete"
    THEN [Returned(s, TRUE) EXCEPT !.complete = TRUE]
    ELSE [s EXCEPT !.pc = "read", !.attempt = 0, !.resends = 0]

\* One transmission of the request of session.post.  "lost": it does not
\* reach the server; "error": an error response that does not come from the
\* handler and that the adapter hands on (the else branch of response.ok);
\* "dropped": the handler runs and no answer arrives in time or, when the
\* caption edit that follows save_state raises, the answer is a 500;
\* "answered": the handler runs and its response arrives.
PostOutcomes == {"lost", "error", "dropped", "answered"}

SenderPost(outcome, message_id) ==
    /\ sender.pc = "post"
    /\ IF outcome \in {"lost", "error"}
       THEN /\ sender' = IF outcome = "lost" THEN AfterTransmission(sender)
                         ELSE AfterFailure(sender)
            /\ last' = [NoReq EXCEPT !.op = "upload_video_chunked"]
            /\ UNCHANGED <<pending_videos, partial_uploads, files, nextId, workers,
                           thr, sent, state_file>>
       ELSE /\ upload_chunk(SenderFile, sender.current_offset, sender.chunk,
                            Len(sender.file), message_id)
            /\ sender' = IF outcome = "dropped" THEN AfterTransmission(sender)
                         ELSE AfterResponse(sender, last')

\* ------------------------------------------------------ startup, load_state
\* The process is stopped at any point and started again: the request threads
\* and the publish threads are gone, the files under UPLOAD_DIR are as they
\* were left, and load_state() reads the registry and the sessions back from
\* the state file.
startup ==
    /\ pending_videos' = state_file.pending_videos
    /\ partial_uploads' = state_file.partial_uploads
    /\ workers' = <<>>
    /\ thr' = [t \in Threads |-> IdleThread]
    /\ last' = [NoReq EXCEPT !.op = "load_state"]
    /\ UNCHANGED <<files, nextId, sent, state_file>>
    /\ UNCHANGED sender

\* ------------------------------------------------------------------ Init
Init ==
    /\ pending_videos = Empty
    /\ partial_uploads = Empty
    /\ files = Empty
    /\ nextId = 0
    /\ workers = <<>>
    /\ thr = [t \in Threads |-> IdleThread]
    /\ sent = [f \in Filenames |-> Broken]
    /\ last = NoReq
    /\ state_file = Snapshot(Empty, Empty)
    /\ sender = IdleSender

\* ---------------------------------------------------------- the transfer path
\* For one file name every offset, body and declared size, with privacy
\* events on the records the transfers create.
TransferFile == "a.mov"

NextTransfer ==
    \/ \E offset \in Offsets, data \in Chunks, total_size \in Offsets :
           upload_chunk(TransferFile, offset, data, total_size, None) /\ UNCHANGED sender
    \/ upload_status(TransferFile) /\ UNCHANGED sender
    \/ \E v \in Ids : WebhookPrivacy(v, "public")

SpecTransfer == Init /\ [][NextTransfer]_vars

\* ---------------------------------------------- the registry and the worker
\* Files arrive whole, in one chunk or by direct upload; every approval event
\* and HTTP request on the registry; the publish threads.
Texts == {[pad |-> 1, core |-> 101]}
PrivacyChoices == {"public", "private"}
MessageId == 7

Next ==
    \/ upload_chunk("a.mov", 0, <<1>>, 1, MessageId) /\ UNCHANGED sender
    \/ upload_status("a.mov") /\ UNCHANGED sender
    \/ upload_direct("a.mov", <<2>>)
    \/ \E v \in Ids, p \in PrivacyChoices : WebhookPrivacy(v, p)
    \/ \E v \in Ids : WebhookConfirmUpload(v, MessageId)
    \/ \E v \in Ids : WebhookDeleteButton(v)
    \/ \E v \in Ids : WebhookConfirmDelete(v)
    \/ \E v \in Ids : WebhookGoBack(v)
    \/ WebhookCleanupYes
    \/ \E text \in Texts : WebhookTitleReply(MessageId, text)
    \/ \E v \in Ids : delete_video(v)
    \/ cleanup_all
    \/ \E i \in DOMAIN workers : WorkerLookup(i)
    \/ \E i \in DOMAIN workers : WorkerSetUploading(i)
    \/ \E i \in DOMAIN workers, outcome \in Outcomes : WorkerPublish(i, FALSE, outcome)
    \/ \E i \in DOMAIN workers : WorkerPoll(i, "succeeded")
    \/ \E i \in DOMAIN workers, delivered \in BOOLEAN : WorkerCleanup(i, delivered)

Spec == Init /\ [][Next]_vars

\* ------------------------------------------------- the registry handlers
\* Titles and deletes: files arrive by chunk (with the chat message to reply
\* to) or by direct upload (without), titles below and above the limit.
RegistryTexts == {[pad |-> 0, core |-> 3], [pad |-> 1, core |-> 101]}

NextRegistry ==
    \/ upload_chunk("a.mov", 0, <<1>>, 1, MessageId) /\ UNCHANGED sender
    \/ upload_direct("b.mov", <<2>>)
    \/ \E v \in Ids : WebhookPrivacy(v, "public")
    \/ \E text \in RegistryTexts : WebhookTitleReply(MessageId, text)
    \/ \E v \in Ids : WebhookDeleteButton(v)
    \/ \E v \in Ids : WebhookConfirmDelete(v)
    \/ \E v \in Ids : WebhookGoBack(v)
    \/ \E v \in Ids : delete_video(v)

SpecRegistry == Init /\ [][NextRegistry]_vars

\* Every event and request that names a video id, on ids that are, were or
\* never were in the registry, and the publish threads up to "uploading".
NextLookup ==
    \/ upload_direct("a.mov", <<2>>)
    \/ \E v \in Ids : WebhookPrivacy(v, "public")
    \/ \E v \in Ids : WebhookConfirmUpload(v, MessageId)
    \/ \E v \in Ids : WebhookDeleteButton(v)
    \/ \E v \in Ids : WebhookConfirmDelete(v)
    \/ \E v \in Ids : WebhookGoBack(v)
    \/ \E v \in Ids : delete_video(v)
    \/ \E v \in Ids : preview_video(v)
    \/ \E v \in Ids : retry_notify(v)
    \/ \E i \in DOMAIN workers : WorkerLookup(i)
    \/ \E i \in DOMAIN workers : WorkerSetUploading(i)

SpecLookup == Init /\ [][NextLookup]_vars

\* ------------------------------------------------------- the publish
\* Directly uploaded files are confirmed and published: landscape and
\* portrait videos, every outcome of the platform, with and without a
\* reachable chat service.
NextPublish ==
    \/ upload_direct("a.mov", <<2>>)
    \/ \E v \in Ids : WebhookConfirmUpload(v, MessageId)
    \/ \E i \in DOMAIN workers : WorkerLookup(i)
    \/ \E i \in DOMAIN workers : WorkerSetUploading(i)
    \/ \E i \in DOMAIN workers, portrait \in BOOLEAN, outcome \in Outcomes :
           WorkerPublish(i, portrait, outcome)
    \/ \E i \in DOMAIN workers : WorkerPoll(i, "succeeded")
    \/ \E i \in DOMAIN workers, delivered \in BOOLEAN : WorkerCleanup(i, delivered)

SpecPublish == Init /\ [][NextPublish]_vars

\* ------------------------------------------------- restart during a transfer
\* One sender submits the chunks of a file of 3 bytes, none of them empty, at
\* the offset the offset query reports; the server is handled step by step
\* and restarted anywhere.
RestartThread == "t1"

NextRestart ==
    \/ \E data \in Chunks \ {<<>>} :
           ChunkCheck(RestartThread, TransferFile,
                      CommittedOffset(partial_uploads, TransferFile), data, 3)
    \/ ChunkOpen(RestartThread)
    \/ ChunkWrite(RestartThread)
    \/ ChunkCommit(RestartThread)
    \/ ChunkFinish(RestartThread)
    \/ startup

SpecRestart == Init /\ [][NextRestart]_vars

\* ------------------------------------------- concurrent chunk submissions
NextConc ==
    \/ \E t \in Threads, offset \in 0..1, data \in {<<1>>, <<2>>} :
           ChunkCheck(t, "a.mov", offset, data, 2)
    \/ \E t \in Threads : ChunkCheck(t, "b.mov", 0, <<1>>, 2)
    \/ \E t \in Threads : ChunkOpen(t)
    \/ \E t \in Threads : ChunkWrite(t)
    \/ \E t \in Threads : ChunkCommit(t)
    \/ \E t \in Threads : ChunkFinish(t)

SpecConc == Init /\ [][NextConc]_vars

\* ------------------------------------------- concurrent webhook deliveries
\* Privacy choices and delete confirmations on two request threads, for the
\* records that direct uploads create.
NextHook ==
    \/ upload_direct("a.mov", <<2>>)
    \/ \E t \in Threads, v \in Ids, p \in PrivacyChoices : HookDispatch(t, "privacy", v, p)
    \/ \E t \in Threads, v \in Ids : HookDispatch(t, "confirm:yes", v, "")
    \/ \E t \in Threads : HookPrivacyValue(t)
    \/ \E t \in Threads : HookPrivacyState(t)
    \/ \E t \in Threads : HookPrivacyRead(t)
    \/ \E t \in Threads : HookDeleteUnlink(t)
    \/ \E t \in Threads : HookDeleteDel(t)

SpecHook == Init /\ [][NextHook]_vars

\* ------------------------------------------------------- the sender's runs
\* One watcher sends one file name, run after run: files of every length,
\* with and without an answer to the offset query, every outcome of a post.
LocalFile(n) == [k \in 1..n |-> 1 + (k % 2)]
LocalFiles   == {LocalFile(n) : n \in 0..MaxFileLen}

SenderStep == SenderRead \/ \E outcome \in PostOutcomes : SenderPost(outcome, None)

NextSender ==
    \/ \E file \in LocalFiles, reachable \in BOOLEAN : SenderStart(file, reachable)
    \/ SenderRead
    \/ \E outcome \in PostOutcomes : SenderPost(outcome, None)

SpecSender == Init /\ [][NextSender]_vars

\* The watcher is a loop of its own process: a run that can take a step takes it.
SpecSenderLive == SpecSender /\ WF_vars(SenderStep)

\* ------------------------------------------------- the progress messages
NextProgress ==
    \/ upload_direct("a.mov", <<2>>)
    \/ \E v \in Ids : WebhookConfirmUpload(v, MessageId)
    \/ \E i \in DOMAIN workers : WorkerLookup(i)
    \/ \E i \in DOMAIN workers : WorkerSetUploading(i)
    \/ \E i \in DOMAIN workers, progress \in Percents, delay \in Delays :
           WorkerProgress(i, progress, delay)
    \/ \E i \in DOMAIN workers : WorkerPublish(i, FALSE, "ok")

SpecProgress == Init /\ [][NextProgress]_vars

\* ------------------------------------------------------- the poll loop
\* Records are confirmed one after the other, each when the publish before
\* it has ended; every answer of the platform to every poll.
Running(w) == w.pc \in {"start", "got", "uploading", "processing", "polled"}

PollStep(i) ==
    \/ WorkerLookup(i)
    \/ WorkerSetUploading(i)
    \/ WorkerPublish(i, FALSE, "ok")
    \/ \E result \in PollResults : WorkerPoll(i, result)
    \/ WorkerCleanup(i, TRUE)

NextPoll ==
    \/ upload_direct("a.mov", <<2>>)
    \/ \E v \in Ids : (\A i \in DOMAIN workers : ~Running(workers[i]))
                          /\ WebhookConfirmUpload(v, MessageId)
    \/ \E i \in DOMAIN workers : WorkerLookup(i)
    \/ \E i \in DOMAIN workers : WorkerSetUploading(i)
    \/ \E i \in DOMAIN workers : WorkerPublish(i, FALSE, "ok")
    \/ \E i \in DOMAIN workers, result \in PollResults : WorkerPoll(i, result)
    \/ \E i \in DOMAIN workers : WorkerCleanup(i, TRUE)

SpecPoll == Init /\ [][NextPoll]_vars

\* A publish thread is a thread of the server process: it takes its next
\* step as long as it has one.
SpecPollLive == SpecPoll /\ \A i \in 1..MaxWorkers : WF_vars(i \in DOMAIN workers /\ PollStep(i))

\* --------------------------------------------- removals during a publish
\* A file of 2 bytes arrives in chunks at the reported offset, again after
\* its record is gone; records are confirmed, published, deleted one by one,
\* in bulk and by age.
NextReap ==
    \/ upload_chunk("a.mov", CommittedOffset(partial_uploads, "a.mov"), <<1>>, 2, MessageId)
          /\ UNCHANGED sender
    \/ \E v \in Ids : WebhookConfirmUpload(v, MessageId)
    \/ \E v \in Ids : delete_video(v)
    \/ cleanup_all
    \/ \E cutoff \in Ids : cleanup_stale(cutoff)
    \/ \E i \in DOMAIN workers : WorkerLookup(i)
    \/ \E i \in DOMAIN workers : WorkerSetUploading(i)
    \/ \E i \in DOMAIN workers : WorkerPublish(i, FALSE, "ok")
    \/ \E i \in DOMAIN workers : WorkerPoll(i, "succeeded")
    \/ \E i \in DOMAIN workers : WorkerCleanup(i, TRUE)

SpecReap == Init /\ [][NextReap]_vars

\* ------------------------------------------------ every mutating operation
\* A file of 2 bytes arrives in two chunks, another by direct upload; titles,
\* privacy choices, confirmations (each when the publish before it has
\* ended), deletes, the bulk delete, the reaper and the publish threads.
NextPersist ==
    \/ upload_chunk("a.mov", CommittedOffset(partial_uploads, "a.mov"), <<1>>, 2, MessageId)
          /\ UNCHANGED sender
    \/ upload_direct("b.mov", <<2>>)
    \/ WebhookTitleReply(MessageId, [pad |-> 0, core |-> 3])
    \/ \E v \in Ids : WebhookPrivacy(v, "public")
    \/ \E v \in Ids : (\A i \in DOMAIN workers : ~Running(workers[i]))
                          /\ WebhookConfirmUpload(v, MessageId)
    \/ \E v \in Ids : WebhookConfirmDelete(v)
    \/ \E v \in Ids : delete_video(v)
    \/ cleanup_all
    \/ \E cutoff \in Ids : cleanup_stale(cutoff)
    \/ \E i \in DOMAIN workers : WorkerLookup(i)
    \/ \E i \in DOMAIN workers : WorkerSetUploading(i)
    \/ \E i \in DOMAIN workers : WorkerPublish(i, FALSE, "ok")
    \/ \E i \in DOMAIN workers : WorkerPoll(i, "succeeded")
    \/ \E i \in DOMAIN workers : WorkerCleanup(i, TRUE)

SpecPersist == Init /\ [][NextPersist]_vars

\* ================================================================ claims
\* A step that handled a request of the given kind (every action of the
\* sequential specifications writes "last").
Handled(op) == last'.op = op

\* C1: when chunks are accepted in offset order from offset 0 and the declared
\* total size is the sum of their lengths, the file on disk at the moment the
\* record is created is the concatenation of those chunks.
C1_ByteIdentical ==
    (/\ last.op = "upload_chunk" /\ last.status = "complete"
     /\ sent[last.filename].ok
     /\ last.total_size = Len(sent[last.filename].data))
    => (/\ last.filename \in DOMAIN files
        /\ files[last.filename] = sent[last.filename].data)

\* Three chunks of one byte each have been assembled into a record's file.
C1_Witness ==
    /\ last.op = "upload_chunk" /\ last.status = "complete"
    /\ last.offset = 2 /\ last.len = 1 /\ last.total_size = 3
    /\ sent[last.filename] = [ok |-> TRUE, data |-> <<1, 2, 1>>]
    /\ last.rvideo_id \in DOMAIN pending_videos

\* C2: with a session for the filename, a chunk is accepted exactly when its
\* offset is the session's offset; the offset then advances by the chunk's
\* length, and the offset of a session never decreases.
C2_AcceptedAtCommittedOffset ==
    [][\A f \in DOMAIN partial_uploads :
          /\ (Handled("upload_chunk") /\ last'.filename = f) =>
                /\ (last'.code = 200) <=> (last'.offset = partial_uploads[f].offset)
                /\ (last'.code # 200) <=> (last'.code = 409)
                /\ (last'.code = 200 /\ f \in DOMAIN partial_uploads') =>
                       partial_uploads'[f].offset = partial_uploads[f].offset + last'.len
                /\ (last'.code = 200 /\ f \notin DOMAIN partial_uploads') =>
                       last'.status = "complete"
          /\ f \in DOMAIN partial_uploads' =>
                partial_uploads'[f].offset >= partial_uploads[f].offset
      ]_vars

\* A second chunk has been accepted at the offset the first one left.
C2_Witness ==
    /\ last.op = "upload_chunk" /\ last.code = 200 /\ last.status = "partial"
    /\ last.offset = 1 /\ last.len = 1 /\ last.roffset = 2
    /\ last.filename \in DOMAIN partial_uploads
    /\ partial_uploads[last.filename].offset = 2

\* C3: with a session, a chunk at any other offset gets 409 with the session's
\* offset, and neither the files, the sessions, the registry nor the answer of
\* the offset query change.
C3_RejectionChangesNothing ==
    [][\A f \in DOMAIN partial_uploads :
          (/\ Handled("upload_chunk") /\ last'.filename = f
           /\ last'.offset # partial_uploads[f].offset)
          => (/\ last'.code = 409
              /\ last'.roffset = partial_uploads[f].offset
              /\ files' = files
              /\ partial_uploads' = partial_uploads
              /\ pending_videos' = pending_videos
              /\ CommittedOffset(partial_uploads', f) = CommittedOffset(partial_uploads, f))
      ]_vars

\* A stale retry below the committed offset has been answered 409.
C3_Witness ==
    /\ last.op = "upload_chunk" /\ last.code = 409
    /\ last.offset = 1 /\ last.len = 1 /\ last.roffset = 2
    /\ CommittedOffset(partial_uploads, last.filename) = 2
    /\ Len(files[last.filename]) = 2

\* C4: without a session, a chunk at an offset above 0 gets 409 with expected
\* offset 0 and writes nothing, creates no session and no record.
C4_NoSessionRejected ==
    [][\A f \in Filenames :
          (/\ Handled("upload_chunk") /\ last'.filename = f
           /\ f \notin DOMAIN partial_uploads /\ last'.offset > 0)
          => (/\ last'.code = 409 /\ last'.roffset = 0
              /\ files' = files
              /\ partial_uploads' = partial_uploads
              /\ pending_videos' = pending_videos)
      ]_vars

\* C5: when the chunk path creates a record, the committed offset and the
\* length of the assembled file equal the declared total size.
C5_RecordAtTotalSize ==
    (last.op = "upload_chunk" /\ last.status = "complete")
    => (/\ last.offset + last.len = last.total_size
        /\ last.filename \in DOMAIN files
        /\ Len(files[last.filename]) = last.total_size)

\* C6: an accepted chunk that reaches the declared size removes the session and
\* answers complete with the id of a record of that filename in
\* awaiting_title; one that does not answers partial with the new offset,
\* keeps the session at it and leaves the registry as it was.
C6_CompleteOrPartial ==
    [][(Handled("upload_chunk") /\ last'.code = 200) =>
          LET f          == last'.filename
              new_offset == last'.offset + last'.len
          IN  IF new_offset >= last'.total_size
              THEN /\ last'.status = "complete"
                   /\ f \notin DOMAIN partial_uploads'
                   /\ last'.rvideo_id \in DOMAIN pending_videos'
                   /\ pending_videos'[last'.rvideo_id].filename = f
                   /\ pending_videos'[last'.rvideo_id].state = STATE_AWAITING_TITLE
              ELSE /\ last'.status = "partial"
                   /\ last'.roffset = new_offset
                   /\ f \in DOMAIN partial_uploads'
                   /\ partial_uploads'[f].offset = new_offset
                   /\ pending_videos' = pending_videos
      ]_vars

\* The chunk that reaches the declared size exactly, after two partial ones.
C6_Witness ==
    /\ last.op = "upload_chunk" /\ last.status = "complete"
    /\ last.offset = 2 /\ last.len = 1 /\ last.total_size = 3
    /\ last.filename \notin DOMAIN partial_uploads
    /\ last.rvideo_id \in DOMAIN pending_videos
    /\ pending_videos[last.rvideo_id].state = STATE_AWAITING_TITLE
    /\ Len(files[last.filename]) = 3

\* C7: of two submissions of the same filename and offset handled at the same
\* time, one is applied and the other is answered 409.
C7_Serialized ==
    \A t, u \in Threads :
        (/\ t # u
         /\ thr[t].pc = "done" /\ thr[u].pc = "done"
         /\ thr[t].raced /\ thr[u].raced
         /\ thr[t].filename = thr[u].filename /\ thr[t].offset = thr[u].offset)
        => {thr[t].code, thr[u].code} = {200, 409}

\* The lifecycle table: a state stays, or moves one step forward.
LifecycleTable ==
    {<<STATE_AWAITING_TITLE, STATE_AWAITING_PRIVACY>>,
     <<STATE_AWAITING_PRIVACY, STATE_READY_TO_UPLOAD>>,
     <<STATE_READY_TO_UPLOAD, STATE_UPLOADING>>}

\* The step is the clean-up of a publish that succeeded.
PublishedStep ==
    \E i \in DOMAIN workers : workers[i].pc = "polled" /\ workers'[i].pc = "published"

\* C8: a record's state changes only along the lifecycle table, and a record
\* is removed only by a delete outside "uploading" or by the success of its
\* publish.
C8_LifecycleOnly ==
    [][\A v \in DOMAIN pending_videos :
          IF v \in DOMAIN pending_videos'
          THEN \/ pending_videos'[v].state = pending_videos[v].state
               \/ <<pending_videos[v].state, pending_videos'[v].state>> \in LifecycleTable
          ELSE \/ pending_videos[v].state # STATE_UPLOADING
               \/ PublishedStep
      ]_vars

\* C9: a privacy event moves a record in awaiting_privacy to ready_to_upload
\* with the chosen privacy, and leaves a record in any other state as it was.
C9_PrivacyOnlyWhenAwaiting ==
    [][\A v \in DOMAIN pending_videos :
          (Handled("privacy") /\ last'.video_id = v) =>
              /\ v \in DOMAIN pending_videos'
              /\ IF pending_videos[v].state = STATE_AWAITING_PRIVACY
                 THEN /\ pending_videos'[v].state = STATE_READY_TO_UPLOAD
                      /\ pending_videos'[v].privacy = last'.value
                 ELSE pending_videos'[v] = pending_videos[v]
      ]_vars

\* C10: a confirmation for a record in ready_to_upload leaves it in
\* "uploading" with one more publish thread started; for a record in any other
\* state it starts no thread and changes no record.
C10_ConfirmOnlyWhenReady ==
    [][\A v \in DOMAIN pending_videos :
          (Handled("action:yes") /\ last'.video_id = v) =>
              IF pending_videos[v].state = STATE_READY_TO_UPLOAD
              THEN /\ v \in DOMAIN pending_videos'
                   /\ pending_videos'[v].state = STATE_UPLOADING
                   /\ Len(workers') = Len(workers) + 1
              ELSE /\ pending_videos' = pending_videos
                   /\ workers' = workers
      ]_vars

\* C11: however often the confirmation of a video is delivered, at most one
\* publish thread uploads that video's record to the platform.
C11_AtMostOnePublish ==
    \A i, j \in DOMAIN workers :
        (/\ i # j
         /\ workers[i].video_id = workers[j].video_id
         /\ workers[i].live /\ workers[j].live)
        => ~(workers[i].pc = "processing" /\ workers[j].pc = "processing")

\* The step is a delete request (the delete confirmation of the webhook or
\* the /delete endpoint) for the given video id.
DeleteStep(v) ==
    (Handled("confirm:yes") \/ Handled("delete")) /\ last'.video_id = v

\* C12: a delete of a record in "uploading" is refused: the record stays in
\* the registry as it was and its file stays on disk.
C12_DeleteRefusedWhileUploading ==
    [][\A v \in DOMAIN pending_videos :
          (DeleteStep(v) /\ pending_videos[v].state = STATE_UPLOADING) =>
              /\ pending_videos' = pending_videos
              /\ files' = files
      ]_vars

\* The step is a bulk delete (the cleanup confirmation of the webhook or the
\* /cleanup endpoint).
BulkDeleteStep == Handled("cleanup:yes") \/ Handled("cleanup")

\* C13: a bulk delete removes every record that is not in "uploading" with its
\* file, and leaves every record in "uploading" and its file as they were.
C13_BulkDeleteSparesUploading ==
    [][BulkDeleteStep =>
          \A v \in DOMAIN pending_videos :
              IF pending_videos[v].state = STATE_UPLOADING
              THEN /\ v \in DOMAIN pending_videos'
                   /\ pending_videos'[v] = pending_videos[v]
                   /\ (pending_videos[v].path \in DOMAIN files =>
                          /\ pending_videos[v].path \in DOMAIN files'
                          /\ files'[pending_videos[v].path] = files[pending_videos[v].path])
              ELSE v \notin DOMAIN pending_videos'
      ]_vars

\* The states of a record that is neither published nor failed.
NonTerminalStates ==
    {STATE_AWAITING_TITLE, STATE_AWAITING_PRIVACY, STATE_READY_TO_UPLOAD, STATE_UPLOADING}

\* C15: when a step of the publish raises an error, the record the thread
\* holds leaves "uploading" for a terminal state.
C15_FailureLeavesUploading ==
    [][\A i \in DOMAIN workers :
          (/\ workers[i].pc = "uploading" /\ workers[i].live
           /\ workers'[i].pc = "failed")
          => (/\ workers[i].video_id \in DOMAIN pending_videos'
              /\ pending_videos'[workers[i].video_id].state \notin NonTerminalStates)
      ]_vars

\* C16: when the platform rejects the content, the record stays in the
\* registry, in a failed state.
C16_RejectionFails ==
    [][\A i \in DOMAIN workers :
          (/\ workers[i].pc = "uploading" /\ workers[i].live
           /\ workers'[i].pc = "rejected")
          => (/\ workers[i].video_id \in DOMAIN pending_videos'
              /\ pending_videos'[workers[i].video_id].state # STATE_UPLOADING
              /\ pending_videos'[workers[i].video_id].state \notin NonTerminalStates)
      ]_vars

\* C20: after "Go Back" on the delete prompt the record is in awaiting_privacy
\* with the privacy it had.
C20_GoBackToPrivacyChoice ==
    [][\A v \in DOMAIN pending_videos :
          (Handled("confirm:no") /\ last'.video_id = v) =>
              /\ v \in DOMAIN pending_videos'
              /\ pending_videos'[v].state = STATE_AWAITING_PRIVACY
              /\ pending_videos'[v].privacy = pending_videos[v].privacy
      ]_vars

\* The records that the step changed or removed.
Touched == {v \in DOMAIN pending_videos :
               v \notin DOMAIN pending_videos' \/ pending_videos'[v] # pending_videos[v]}

\* C14: a title reply changes at most one record, which was in awaiting_title
\* and is then in awaiting_privacy with the stripped text cut to 100
\* characters as its title and nothing else changed; without a record in
\* awaiting_title for the message replied to, it changes no record.
C14_TitleOnlyWhenAwaiting ==
    [][Handled("reply") =>
          /\ DOMAIN pending_videos' = DOMAIN pending_videos
          /\ Cardinality(Touched) <= 1
          /\ \A v \in Touched :
                /\ pending_videos[v].state = STATE_AWAITING_TITLE
                /\ pending_videos[v].message_id = MessageId
                /\ pending_videos'[v].title <= TitleLimit
                /\ pending_videos'[v].title =
                       (IF last'.len < TitleLimit THEN last'.len ELSE TitleLimit)
                /\ pending_videos'[v] =
                       [pending_videos[v] EXCEPT !.title = pending_videos'[v].title,
                                                 !.state = STATE_AWAITING_PRIVACY]
          /\ (AwaitingReply(pending_videos, MessageId) = {}) => Touched = {}
          /\ (AwaitingReply(pending_videos, MessageId) # {}) => Touched # {}
      ]_vars

\* A reply of 101 characters has become a title of 100 on the record of the
\* message, next to a record in awaiting_title that was left alone.
C14_Witness ==
    /\ last.op = "reply" /\ last.len = 101
    /\ last.video_id \in DOMAIN pending_videos
    /\ pending_videos[last.video_id].title = TitleLimit
    /\ pending_videos[last.video_id].state = STATE_AWAITING_PRIVACY
    /\ \E u \in DOMAIN pending_videos :
          u # last.video_id /\ pending_videos[u].state = STATE_AWAITING_TITLE

\* C18: when a delete of a record has returned, the record is out of the
\* registry and no file is left at its path.
C18_DeleteRemovesRecordAndFile ==
    [][\A v \in DOMAIN pending_videos :
          DeleteStep(v) =>
              /\ v \notin DOMAIN pending_videos'
              /\ pending_videos[v].path \notin DOMAIN files'
              /\ last'.code = 200
      ]_vars

\* The /delete endpoint has answered "deleted" for a record that a publish
\* thread had put in "uploading": record and file are gone.
C18_Witness ==
    /\ last.op = "delete" /\ last.status = "deleted"
    /\ last.video_id \notin DOMAIN pending_videos
    /\ "a.mov" \notin DOMAIN files
    /\ \E i \in DOMAIN workers :
          workers[i].video_id = last.video_id /\ workers[i].pc = "uploading"

\* The requests and events that name a video id.
IdOps == {"privacy", "action:yes", "action:no", "confirm:yes", "confirm:no",
          "delete", "preview", "retry_notify"}

\* The step is the start of a publish thread for the given video id.
WorkerStartStep(v) ==
    \E i \in DOMAIN workers :
        workers[i].video_id = v /\ workers[i].pc = "start" /\ workers'[i].pc # "start"

\* C19: an event or a request naming an id that is not in the registry, and
\* the start of a publish thread for such an id, change neither the registry,
\* the sessions nor the files; no thread is started, the starting thread
\* returns at once, and the answer is 200 or 404.
C19_UnknownIdNoOp ==
    [][\A v \in Ids :
          v \notin DOMAIN pending_videos =>
              /\ (last'.op \in IdOps /\ last'.video_id = v) =>
                    /\ pending_videos' = pending_videos
                    /\ partial_uploads' = partial_uploads
                    /\ files' = files
                    /\ workers' = workers
                    /\ last'.code \in {200, 404}
              /\ WorkerStartStep(v) =>
                    /\ pending_videos' = pending_videos
                    /\ partial_uploads' = partial_uploads
                    /\ files' = files
                    /\ \A i \in DOMAIN workers :
                          (workers[i].video_id = v /\ workers[i].pc = "start") =>
                              workers'[i].pc \in {"start", "absent"}
      ]_vars

\* A publish thread confirmed for a record found it deleted when it started,
\* and returned.
C19_Witness ==
    /\ last.op = "upload_to_youtube"
    /\ last.video_id \notin DOMAIN pending_videos
    /\ last.video_id <= nextId
    /\ \E i \in DOMAIN workers :
          workers[i].video_id = last.video_id /\ workers[i].pc = "absent"

\* C17: webhook deliveries handled at the same time never end in an unhandled
\* error: no request thread answers 500.
C17_NoUnhandledError ==
    \A t \in Threads : thr[t].code # 500

\* What the lifecycle sees of the registry: the record set and each record's
\* state, title and privacy.
Lifecycle(pv) ==
    [v \in DOMAIN pv |->
        [state |-> pv[v].state, title |-> pv[v].title, privacy |-> pv[v].privacy]]

\* The step handles the event that the step before it handled: the same
\* privacy choice, delete or "Go Back" for the same video id, or a reply with
\* the same text to the same message.
RepeatedEvent ==
    /\ last'.op = last.op
    /\ \/ /\ last'.op \in {"privacy", "confirm:yes", "delete", "confirm:no"}
          /\ last'.video_id = last.video_id
          /\ last'.value = last.value
       \/ /\ last'.op = "reply"
          /\ last'.len = last.len

\* C21: the second of two deliveries in succession of the same title reply,
\* privacy choice, delete or "Go Back" leaves the record set and every
\* record's state, title and privacy as the first delivery left them.
C21_SecondDeliveryNoEffect ==
    [][RepeatedEvent => Lifecycle(pending_videos') = Lifecycle(pending_videos)]_vars

\* A title reply came in again after it had been applied: it matched no
\* record, and the record titled by the first delivery is in awaiting_privacy.
C21_Witness ==
    /\ last.op = "reply" /\ last.len = 3 /\ last.video_id = None
    /\ \E v \in DOMAIN pending_videos :
          /\ pending_videos[v].message_id = MessageId
          /\ pending_videos[v].title = 3
          /\ pending_videos[v].state = STATE_AWAITING_PRIVACY

\* C22: no two records of the registry have the same filename.
C22_OneRecordPerFilename ==
    \A v, u \in DOMAIN pending_videos :
        pending_videos[v].filename = pending_videos[u].filename => v = u

\* C23: a chunked transfer that completes for a filename that has a record
\* answers with that record's id, adds no record, and leaves the record's
\* state, title and privacy as they were.
C23_RetransferKeepsRecord ==
    [][\A v \in DOMAIN pending_videos :
          (/\ Handled("upload_chunk") /\ last'.status = "complete"
           /\ pending_videos[v].filename = last'.filename)
          => (/\ last'.rvideo_id \in DOMAIN pending_videos
              /\ pending_videos[last'.rvideo_id].filename = last'.filename
              /\ DOMAIN pending_videos' = DOMAIN pending_videos
              /\ Lifecycle(pending_videos') = Lifecycle(pending_videos))
      ]_vars

\* C24: the file at the path of every record of the registry exists.
C24_RecordFileExists ==
    \A v \in DOMAIN pending_videos : pending_videos[v].path \in DOMAIN files

\* C26: the offset query answers with the offset of the filename's session,
\* or 0 without a session, and changes neither the sessions, the registry nor
\* the files.
C26_StatusReportsCommitted ==
    [][Handled("upload_status") =>
          /\ last'.code = 200
          /\ last'.roffset = (IF last'.filename \in DOMAIN partial_uploads
                              THEN partial_uploads[last'.filename].offset ELSE 0)
          /\ partial_uploads' = partial_uploads
          /\ pending_videos' = pending_videos
          /\ files' = files
      ]_vars

\* The query has reported offset 2 for a session of declared size 3.
C26_Witness ==
    /\ last.op = "upload_status" /\ last.roffset = 2
    /\ last.filename \in DOMAIN partial_uploads
    /\ partial_uploads[last.filename] = [offset |-> 2, total_size |-> 3]

\* C28: a chunk submission leaves every record that exists in the registry,
\* with its state, title and privacy as they were.
C28_ChunkKeepsLifecycle ==
    [][Handled("upload_chunk") =>
          \A v \in DOMAIN pending_videos :
              /\ v \in DOMAIN pending_videos'
              /\ Lifecycle(pending_videos')[v] = Lifecycle(pending_videos)[v]
      ]_vars

FinishStep(i) ==
    /\ workers[i].pc = "polled" /\ workers[i].live
    /\ workers'[i].pc # "polled"

\* C27: a publish that was uploaded and processed ends with the success
\* outcome also when the chat service cannot be reached: the record is
\* removed and no file is left at its path.
C27_UndeliveredStillSucceeds ==
    [][\A i \in DOMAIN workers :
          (FinishStep(i) /\ last'.status = "undelivered") =>
              /\ workers'[i].pc = "published"
              /\ workers[i].video_id \notin DOMAIN pending_videos'
              /\ pending_videos[workers[i].video_id].path \notin DOMAIN files'
      ]_vars

\* C30: after a successful publish the record is removed and neither the file
\* at its path nor a rotated copy of it is left on disk.
C30_PublishLeavesNoFile ==
    [][\A i \in DOMAIN workers :
          (FinishStep(i) /\ workers'[i].pc = "published") =>
              /\ workers[i].video_id \notin DOMAIN pending_videos'
              /\ pending_videos[workers[i].video_id].path \notin DOMAIN files'
              /\ Rotated(pending_videos[workers[i].video_id].path) \notin DOMAIN files'
      ]_vars

\* C25: after a restart every session that load_state restored has the length
\* of the partial file on disk as its offset.
C25_RestoredOffsetIsFileLength ==
    [][Handled("load_state") =>
          \A f \in DOMAIN partial_uploads' :
              /\ f \in DOMAIN files'
              /\ partial_uploads'[f].offset = Len(files'[f])
      ]_vars

\* C31: the poll loop of a publish thread always terminates.  It is left only
\* when the platform reports "succeeded" or when max_poll_time seconds have
\* passed, whatever the polls in between answered (errors included), the time
\* spent in it never exceeds max_poll_time, and a thread that has entered the
\* loop goes on to the success outcome: it ends "published".
PollExit(i) == workers[i].pc = "processing" /\ workers'[i].pc = "polled"

C31_PollLoopTerminates ==
    /\ [][\A i \in DOMAIN workers :
             PollExit(i) => \/ last'.status = "succeeded"
                            \/ workers[i].poll_elapsed >= max_poll_time]_vars
    /\ [](\A i \in DOMAIN workers : workers[i].poll_elapsed <= max_poll_time)
    /\ \A i \in 1..MaxWorkers :
          (i \in DOMAIN workers /\ workers[i].pc = "processing")
             ~> (i \in DOMAIN workers /\ workers[i].pc = "published")

\* A thread has left the loop by the time limit, after polls that did not
\* report success.
C31_Witness ==
    \E i \in DOMAIN workers :
        /\ workers[i].pc = "polled"
        /\ workers[i].poll_elapsed = max_poll_time
        /\ last.status = "timeout"

\* C32: during the upload loop a progress message is sent for a segment only
\* if the progress has advanced at least 5 percentage points since the last
\* message or more than 5 seconds have passed since the last message (the
\* message "Uploading to YouTube..." that precedes the loop counts as the
\* first).
ProgressStep(i) == workers[i].pc = "uploading" /\ workers'[i].progress > workers[i].progress

C32_ProgressThrottled ==
    [][\A i \in DOMAIN workers :
          (ProgressStep(i) /\ last'.status = "notified") =>
              \/ workers'[i].progress - workers[i].last_progress_update >= 5
              \/ workers'[i].seconds - workers[i].notified_at > 5]_vars

\* C33: after every operation that changes the registry or the sessions has
\* returned, the state file holds the records of the registry and the offsets
\* of the sessions as they are in memory.
C33_SnapshotIsCurrent == state_file = Snapshot(pending_videos, partial_uploads)

\* The state file holds a record in state "uploading" and a session, after
\* requests of more than one kind have been handled.
C33_Witness ==
    /\ state_file = Snapshot(pending_videos, partial_uploads)
    /\ \E v \in DOMAIN state_file.pending_videos :
           state_file.pending_videos[v].state = STATE_UPLOADING
    /\ DOMAIN state_file.partial_uploads # {}
    /\ last.op = "cleanup_stale"

\* C34: when the sender is answered 409 it seeks its file to the
\* expected_offset of the response, the chunk it reads next carries the
\* position it is read from as its X-Offset, and every request the sender
\* submits carries as X-Offset the position its bytes were read from.
Answered409 ==
    /\ sender.pc = "post" /\ sender'.pc = "read"
    /\ last'.op = "upload_chunk" /\ last'.code = 409

C34_ReseekToExpected ==
    [][/\ Answered409 => sender'.pos = last'.roffset
       /\ (sender.pc = "read" /\ sender'.pc = "post") =>
              sender'.current_offset = sender.pos
       /\ (sender.pc = "post" /\ last'.op = "upload_chunk") =>
              last'.offset = sender.read_at]_vars

\* The sender has been answered 409 and has moved back to an expected offset
\* at which its file has bytes left to send.
C34_Witness ==
    /\ sender.pc = "read"
    /\ last.op = "upload_chunk" /\ last.code = 409
    /\ sender.pos = last.roffset
    /\ sender.pos < last.offset + last.len
    /\ sender.pos < Len(sender.file)

\* C35: every file name that has a session has its partial file on disk, and
\* the length of that file is the session's committed offset, whatever
\* deletes, bulk deletes, reaper runs and publishes of records of the same
\* file name come between the chunks.
C35_SessionFileMatches ==
    \A f \in DOMAIN partial_uploads :
        f \in DOMAIN files /\ Len(files[f]) = partial_uploads[f].offset

\* C37: when the record of a publish thread has been removed (by a delete, a
\* bulk delete or the reaper) while the thread runs, no later step of the
\* thread changes the registry: the video id is not inserted again and no
\* other record is removed or modified.
Removed(i) == Running(workers[i]) /\ workers[i].video_id \notin DOMAIN pending_videos

ThreadStep(i) == last'.op = "upload_to_youtube" /\ workers'[i].pc # workers[i].pc

C37_RemovedRecordStaysRemoved ==
    [][\A i \in DOMAIN workers :
          (Removed(i) /\ ThreadStep(i)) => pending_videos' = pending_videos]_vars

\* A thread is about to clean up after its record was removed and the same
\* file name was transferred again into a record of another id.
C37_Witness ==
    \E i \in DOMAIN workers :
        /\ workers[i].pc = "polled"
        /\ last.op = "upload_to_youtube" /\ last.video_id = workers[i].video_id
        /\ workers[i].video_id \notin DOMAIN pending_videos
        /\ \E v \in DOMAIN pending_videos : pending_videos[v].path = workers[i].video_path

\* C36: upload_video_chunked returns True, upon which process_video deletes
\* the source file, only if a response of the run said "complete".
C36_SuccessOnlyOnComplete ==
    (sender.pc = "returned" /\ sender.result) => sender.complete

\* C38: with one sender, every run of upload_video_chunked returns, whatever
\* requests get lost, answers fail to arrive, errors are answered and 409s
\* send it back: a chunk is given at most max_retries attempts, each of them
\* resent at most RetryTotal times by the adapter, and a run that has started
\* reaches its return.
C38_SenderReturns ==
    /\ [](sender.attempt < max_retries /\ sender.resends <= RetryTotal)
    /\ (sender.pc \in {"read", "post"}) ~> (sender.pc = "returned")

\* The last transmission of the last attempt of a chunk is about to be made.
C38_Witness ==
    /\ sender.pc = "post"
    /\ sender.attempt = max_retries - 1
    /\ sender.resends = RetryTotal
====
